---- MODULE Spec2Model ----
(***************************************************************************)
(* The service runtime of runtime/services/service.go: Run, the            *)
(* Bootstrapper registry, the startup jobs, one goroutine per server and   *)
(* per job (runJob), the signal-triggered shutdown and the deferred        *)
(* cleanups.  Time is a discrete clock in seconds.                         *)
(***************************************************************************)
EXTENDS Integers, Sequences, FiniteSets, TLC

\* ------------------------------------------------------------------ bounds
\* Deferred callbacks registered in one run.
MaxDefers == 2
\* Servers and jobs the configuration function registers in one run.
MaxRegs == 2
\* The clock of the timed specification stops here (seconds).
MaxTime == 4
\* Job intervals passed to AddJob range over 1..MaxInterval seconds.
MaxInterval == 1
\* Job intervals of the timed specification range over 1..MaxPeriod seconds.
MaxPeriod == 2
\* The clock of the drain specification stops here (seconds after <-stop).
MaxDrainTime == 6
\* Handler wrappers passed with WithLogHandlerWrapper in one run.
MaxWrappers == 3

\* --------------------------------------------------------------- constants
\* context.WithTimeout(context.Background(), 5*time.Second)
ShutdownTimeout == 5

\* cmp.Or(os.Getenv("DEBUG_PORT"), "6060"), with DEBUG_PORT unset
DebugAddr == [host |-> "", port |-> "6060"]

\* The addresses the configuration function passes to AddServer.
UserAddrs == {[host |-> "", port |-> "8080"], [host |-> "", port |-> "6060"]}

\* Every address AddServer may be given: also the same port under another
\* host or with a leading zero, a service name for a port, and an address
\* without a port part (its port text is "-").
AnyAddrs == UserAddrs \cup {[host |-> "127.0.0.1", port |-> "8080"],
                            [host |-> "", port |-> "08080"],
                            [host |-> "", port |-> "http"],
                            [host |-> "localhost", port |-> "-"]}

\* net.SplitHostPort fails on an address without a port part.
SplitErr(addr) == addr.port = "-"

\* strconv.Atoi on the port texts above: the decimal value, or an error.
AtoiErr(s) == s \notin {"8080", "6060", "08080"}

Atoi(s) == CASE s = "8080" -> 8080
             [] s = "6060" -> 6060
             [] s = "08080" -> 8080

Ports == {Atoi(a.port) : a \in UserAddrs \cup {DebugAddr}}

JobNames == {"a", "b"}

Intervals == 1..MaxInterval

\* Every interval AddJob may be given: a time.Duration may be zero.
AnyIntervals == 0..MaxInterval

\* What a job function returns: nil, an error of its own, or the context's
\* error (only once the context it was given is cancelled).
JobErrs == {"nil", "fail", "cancelled"}

NoAddr == [host |-> "", port |-> ""]

NoJob == [name |-> "", interval |-> 0]

VARIABLES
    pc,          \* where the goroutine that runs Run is
    exit,        \* "running", "returned", "killed" (by a signal), or the message
                 \* slogFatal logged before os.Exit(1)
    servers,     \* b.servers: port -> address of the registered server
    jobs,        \* b.jobs: name -> job
    startupJobs, \* b.startupJobs
    deferFns,    \* b.deferFns: the callbacks, named by registration number
    startupIdx,  \* index of the startup job being (or to be) invoked
    startupRan,  \* the startup jobs invoked so far, in order, with their results
    token,       \* backgroundCtx: "none", "active", "cancelled"
    wg,          \* the WaitGroup counter
    srv,         \* per port: the server and its goroutine
    jb,          \* per name: the job's goroutine and its ticker
    startLog,    \* ports of the "starting server" log entries, in order
    notified,    \* signal.Notify(stop, ...) has been called
    stop,        \* number of signals buffered in the stop channel (cap 1)
    shutdownCtx, \* "none", "active", "expired", and its deadline
    cur,         \* the port whose Shutdown/Close is in progress, or 0
    drained,     \* ports the shutdown loop has finished with
    deferRan,    \* callbacks invoked so far, in order
    now,         \* the clock
    timed,       \* whether the clock runs and the invocations are counted
    handlers,    \* so.logHandlerWrappers, the list newLogger is given
    logger       \* newLogger: where it is, its loop index i and its handler h

vars == <<pc, exit, servers, jobs, startupJobs, deferFns, startupIdx, startupRan,
          token, wg, srv, jb, startLog, notified, stop, shutdownCtx, cur,
          drained, deferRan, now, timed, handlers, logger>>

registry == <<servers, jobs, startupJobs, deferFns>>
units == <<wg, srv, jb, startLog>>
signals == <<notified, stop>>
shutdown == <<shutdownCtx, cur, drained, deferRan>>
clock == <<now, timed>>
logging == <<handlers, logger>>

NoSrv == [unit |-> "none", shutdowns |-> 0, closes |-> 0, result |-> "none"]

NoUnit == [st |-> "none", pending |-> FALSE, began |-> 0, inv |-> 0, lastEnd |-> 0,
           err |-> "nil", logged |-> 0]

\* The logger of a service that passes no handler wrapper: the JSON handler.
BaseLogger == [st |-> "done", i |-> 0, h |-> <<"json">>]

Init ==
    /\ pc = "config"
    /\ exit = "running"
    /\ servers = [p \in {} |-> NoAddr]
    /\ jobs = [n \in {} |-> NoJob]
    /\ startupJobs = <<>>
    /\ deferFns = <<>>
    /\ startupIdx = 1
    /\ startupRan = <<>>
    /\ token = "none"
    /\ wg = 0
    /\ srv = [p \in Ports |-> NoSrv]
    /\ jb = [n \in JobNames |-> NoUnit]
    /\ startLog = <<>>
    /\ notified = FALSE
    /\ stop = 0
    /\ shutdownCtx = [st |-> "none", deadline |-> 0]
    /\ cur = 0
    /\ drained = {}
    /\ deferRan = <<>>
    /\ now = 0
    /\ timed = FALSE
    /\ handlers = <<>>
    /\ logger = BaseLogger

\* ---------------------------------------------------------------- helpers
\* Faulty variant: the error is logged but the process is not ended.
M_slogFatal(msg) == exit' = exit

\* slogFatal / slogFatalContext: log msg and the error, then os.Exit(1).
\* Nothing runs afterwards: no deferred call, no goroutine.
slogFatal(msg) == exit' = msg

Running == exit = "running"

Fatal == exit \notin {"running", "returned", "killed"}

\* slices.Sorted(maps.Keys(b.servers))
RECURSIVE SortedSeq(_)
SortedSeq(S) ==
    IF S = {} THEN <<>>
    ELSE LET m == CHOOSE x \in S : \A y \in S : x <= y
         IN <<m>> \o SortedSeq(S \ {m})

Range(s) == {s[i] : i \in 1..Len(s)}

\* ------------------------------------------------- the configuration phase
\* b.AddServer(srv): the port of srv.Addr is the key; an address that does not
\* split or whose port is no number is fatal, and so is a second server on
\* the same port.
\* Faulty variant: the port is not looked up before the server is stored.
M_AddServerTo(addr) ==
    IF SplitErr(addr) \/ AtoiErr(addr.port)
    THEN /\ slogFatal("Failed to split host and port")
         /\ UNCHANGED <<registry, startupIdx, startupRan, token, units, signals,
                        shutdown, clock, logging>>
    ELSE LET portInt == Atoi(addr.port)
         IN /\ servers' = [p \in DOMAIN servers \cup {portInt} |->
                              IF p = portInt THEN addr ELSE servers[p]]
            /\ UNCHANGED <<exit, jobs, startupJobs, deferFns, startupIdx,
                           startupRan, token, units, signals, shutdown, clock, logging>>

AddServerTo(addr) ==
    IF SplitErr(addr)
    THEN /\ slogFatal("Failed to split host and port")
         /\ UNCHANGED <<registry, startupIdx, startupRan, token, units, signals,
                        shutdown, clock, logging>>
    ELSE IF AtoiErr(addr.port)
    THEN /\ slogFatal("Failed to convert port to int")
         /\ UNCHANGED <<registry, startupIdx, startupRan, token, units, signals,
                        shutdown, clock, logging>>
    ELSE LET portInt == Atoi(addr.port)
         IN IF portInt \in DOMAIN servers
            THEN /\ slogFatal("server already added")
                 /\ UNCHANGED <<registry, startupIdx, startupRan, token, units,
                                signals, shutdown, clock, logging>>
            ELSE /\ servers' = [p \in DOMAIN servers \cup {portInt} |->
                                   IF p = portInt THEN addr ELSE servers[p]]
                 /\ UNCHANGED <<exit, jobs, startupJobs, deferFns, startupIdx,
                                startupRan, token, units, signals, shutdown, clock, logging>>

Registered == Cardinality(DOMAIN servers) + Cardinality(DOMAIN jobs)

AddServer(addr) ==
    /\ Running /\ pc = "config"
    /\ Registered < MaxRegs
    /\ AddServerTo(addr)
    /\ pc' = pc

\* b.AddJob(name, interval, fn): the name is the key; a second job of the
\* same name is fatal.
\* Faulty variant: the name is not looked up before the job is stored.
M_AddJobTo(name, interval, startup) ==
    LET j == [name |-> name, interval |-> interval]
    IN /\ jobs' = [n \in DOMAIN jobs \cup {name} |-> IF n = name THEN j ELSE jobs[n]]
       /\ startupJobs' = IF startup THEN Append(startupJobs, j) ELSE startupJobs
       /\ UNCHANGED <<pc, exit, servers, deferFns, startupIdx, startupRan,
                      token, units, signals, shutdown, clock, logging>>

AddJobTo(name, interval, startup) ==
    IF name \in DOMAIN jobs
    THEN /\ slogFatal("job already added")
         /\ UNCHANGED <<pc, registry, startupIdx, startupRan, token, units, signals,
                        shutdown, clock, logging>>
    ELSE LET j == [name |-> name, interval |-> interval]
         IN /\ jobs' = [n \in DOMAIN jobs \cup {name} |->
                           IF n = name THEN j ELSE jobs[n]]
            /\ startupJobs' = IF startup THEN Append(startupJobs, j) ELSE startupJobs
            /\ UNCHANGED <<pc, exit, servers, deferFns, startupIdx, startupRan,
                           token, units, signals, shutdown, clock, logging>>

AddJob(name, interval) ==
    /\ Running /\ pc = "config"
    /\ Registered < MaxRegs
    /\ AddJobTo(name, interval, FALSE)

\* b.AddJobAndOnStartup: AddJob, then the job is appended to b.startupJobs.
\* Faulty variant: the job is enrolled in the startup list only.
M_AddJobAndOnStartup(name, interval) ==
    /\ Running /\ pc = "config"
    /\ Registered < MaxRegs
    /\ Len(startupJobs) < MaxRegs
    /\ startupJobs' = Append(startupJobs, [name |-> name, interval |-> interval])
    /\ UNCHANGED <<pc, exit, servers, jobs, deferFns, startupIdx, startupRan,
                   token, units, signals, shutdown, clock, logging>>

AddJobAndOnStartup(name, interval) ==
    /\ Running /\ pc = "config"
    /\ Registered < MaxRegs
    /\ AddJobTo(name, interval, TRUE)

\* b.Defer(fn): append.  The callback is named by its registration number.
DeferAppend == Append(deferFns, Len(deferFns) + 1)

Defer ==
    /\ Running /\ pc \in {"config", "startupCall"}
    /\ Len(deferFns) < MaxDefers
    /\ deferFns' = DeferAppend
    /\ UNCHANGED <<pc, exit, servers, jobs, startupJobs, startupIdx, startupRan,
                   token, units, signals, shutdown, clock, logging>>

\* err := fn(b): the configuration function returns; an error is fatal.
FnReturn(ok) ==
    /\ Running /\ pc = "config"
    /\ IF ok
       THEN /\ pc' = "debug"
            /\ UNCHANGED <<exit, registry, startupIdx, startupRan, token, units,
                           signals, shutdown, clock, logging>>
       ELSE /\ slogFatal("failed to start service")
            /\ UNCHANGED <<pc, registry, startupIdx, startupRan, token, units,
                           signals, shutdown, clock, logging>>

\* b.addDebugServer()
\* Faulty variant: a debug port that is already taken is passed over.
M_addDebugServer ==
    /\ Running /\ pc = "debug"
    /\ IF Atoi(DebugAddr.port) \in DOMAIN servers
       THEN UNCHANGED <<exit, registry, startupIdx, startupRan, token, units,
                        signals, shutdown, clock, logging>>
       ELSE AddServerTo(DebugAddr)
    /\ pc' = "startup"

addDebugServer ==
    /\ Running /\ pc = "debug"
    /\ AddServerTo(DebugAddr)
    /\ pc' = IF Atoi(DebugAddr.port) \in DOMAIN servers THEN pc ELSE "startup"

\* ------------------------------------------------------ the startup phase
\* for _, job := range b.startupJobs { err := job.fn(ctx) ...: the call.
\* Faulty variant: the startup jobs are taken from the end of the list.
M_StartupNext == startupJobs[Len(startupJobs) - startupIdx + 1]

StartupNext == startupJobs[startupIdx]

StartupCall ==
    /\ Running /\ pc = "startup"
    /\ startupIdx <= Len(startupJobs)
    /\ startupRan' = Append(startupRan, [name |-> StartupNext.name, res |-> "running"])
    /\ pc' = "startupCall"
    /\ UNCHANGED <<exit, registry, startupIdx, token, units, signals, shutdown, clock, logging>>

\* ... the return of job.fn(ctx): an error is fatal, nil moves to the next job.
StartupReturn(ok) ==
    /\ Running /\ pc = "startupCall"
    /\ startupRan' = [startupRan EXCEPT ![Len(startupRan)].res =
                                             IF ok THEN "ok" ELSE "err"]
    /\ IF ok
       THEN /\ startupIdx' = startupIdx + 1
            /\ pc' = "startup"
            /\ exit' = exit
       ELSE /\ slogFatal("failed to run startup job")
            /\ UNCHANGED <<pc, startupIdx>>
    /\ UNCHANGED <<registry, token, units, signals, shutdown, clock, logging>>

\* backgroundCtx, backgroundCancel := context.WithCancel(context.Background())
WithCancel ==
    /\ Running /\ pc = "startup"
    /\ startupIdx > Len(startupJobs)
    /\ token' = "active"
    /\ pc' = "launch"
    /\ UNCHANGED <<exit, registry, startupIdx, startupRan, units, signals,
                   shutdown, clock, logging>>

\* ------------------------------------------------------- the launch phase
Unlaunched == {p \in DOMAIN servers : srv[p].unit = "none"}

UnlaunchedJobs == {n \in DOMAIN jobs : jb[n].st = "none"}

\* The server the loop over slices.Sorted(maps.Keys(b.servers)) launches next.
NextPort == SortedSeq(Unlaunched)[1]

\* wg.Add(1); go func(server) {...}(b.servers[port])
LaunchServer ==
    /\ Running /\ pc = "launch"
    /\ Unlaunched # {}
    /\ wg' = wg + 1
    /\ srv' = [srv EXCEPT ![NextPort].unit = "launched"]
    /\ UNCHANGED <<pc, exit, registry, startupIdx, startupRan, token, jb, startLog,
                   signals, shutdown, clock, logging>>

\* for name, j := range b.jobs { wg.Add(1); go func(...) }: map order.
LaunchJob(n) ==
    /\ Running /\ pc = "launch"
    /\ Unlaunched = {}
    /\ n \in UnlaunchedJobs
    /\ wg' = wg + 1
    /\ jb' = [jb EXCEPT ![n].st = "launched"]
    /\ UNCHANGED <<pc, exit, registry, startupIdx, startupRan, token, srv, startLog,
                   signals, shutdown, clock, logging>>

\* stop := make(chan os.Signal, 1); signal.Notify(stop, SIGINT, SIGTERM)
Notify ==
    /\ Running /\ pc = "launch"
    /\ Unlaunched = {} /\ UnlaunchedJobs = {}
    /\ notified' = TRUE
    /\ pc' = "await"
    /\ UNCHANGED <<exit, registry, startupIdx, startupRan, token, units, stop,
                   shutdown, clock, logging>>

\* A SIGINT or SIGTERM reaches the process.  Before signal.Notify the default
\* disposition ends the process; afterwards the runtime does a non-blocking
\* send on the channel of capacity 1.
\* Faulty variant: the handler serves one signal only; once <-stop has taken
\* it, the default disposition is back.
M_Signal ==
    /\ Running
    /\ IF notified /\ pc = "await"
       THEN /\ stop' = IF stop < 1 THEN stop + 1 ELSE stop
            /\ exit' = exit
       ELSE /\ exit' = "killed"
            /\ stop' = stop
    /\ UNCHANGED <<pc, registry, startupIdx, startupRan, token, units, notified,
                   shutdown, clock, logging>>

Signal ==
    /\ Running
    /\ IF notified
       THEN /\ stop' = IF stop < 1 THEN stop + 1 ELSE stop
            /\ exit' = exit
       ELSE /\ exit' = "killed"
            /\ stop' = stop
    /\ UNCHANGED <<pc, registry, startupIdx, startupRan, token, units, notified,
                   shutdown, clock, logging>>

\* ------------------------------------------------------- the server units
\* http.Server.shuttingDown(): set by Shutdown and by Close, never reset.
InShutdown(p) == srv[p].shutdowns > 0 \/ srv[p].closes > 0

\* slog.Info("starting server"); server.ListenAndServe(): ErrServerClosed when
\* the server is already shut down, a bind error (fatal), or serving.
SrvStart(p, bound) ==
    /\ Running
    /\ p \in DOMAIN servers
    /\ srv[p].unit = "launched"
    /\ startLog' = Append(startLog, p)
    /\ IF InShutdown(p)
       THEN /\ bound
            /\ srv' = [srv EXCEPT ![p].unit = "done"]
            /\ wg' = wg - 1
            /\ UNCHANGED <<pc, exit, registry, startupIdx, startupRan, token, jb,
                           signals, shutdown, clock, logging>>
       ELSE IF bound
            THEN /\ srv' = [srv EXCEPT ![p].unit = "serving"]
                 /\ UNCHANGED <<pc, exit, registry, startupIdx, startupRan, token,
                                wg, jb, signals, shutdown, clock, logging>>
            ELSE /\ slogFatal("failed to start server")
                 /\ UNCHANGED <<pc, registry, startupIdx, startupRan, token, wg,
                                srv, jb, signals, shutdown, clock, logging>>

\* ListenAndServe returns http.ErrServerClosed after Shutdown or Close:
\* the goroutine ends and its deferred wg.Done() runs.
\* Faulty variant: "server closed" is not told apart from the other errors.
M_SrvClosed(p) ==
    /\ Running
    /\ p \in DOMAIN servers
    /\ srv[p].unit = "serving"
    /\ InShutdown(p)
    /\ slogFatal("failed to start server")
    /\ UNCHANGED <<pc, registry, startupIdx, startupRan, token, units, signals,
                   shutdown, clock, logging>>

SrvClosed(p) ==
    /\ Running
    /\ p \in DOMAIN servers
    /\ srv[p].unit = "serving"
    /\ InShutdown(p)
    /\ srv' = [srv EXCEPT ![p].unit = "done"]
    /\ wg' = wg - 1
    /\ UNCHANGED <<pc, exit, registry, startupIdx, startupRan, token, jb, startLog,
                   signals, shutdown, clock, logging>>

\* ListenAndServe returns another error (the accept loop fails): slogFatal.
\* Faulty variant: the failure is handled by running the deferred callbacks
\* before the process ends.
M_SrvFail(p) ==
    /\ Running
    /\ p \in DOMAIN servers
    /\ srv[p].unit = "serving"
    /\ ~InShutdown(p)
    /\ slogFatal("failed to start server")
    /\ deferRan' = deferFns
    /\ UNCHANGED <<pc, registry, startupIdx, startupRan, token, units, signals,
                   shutdownCtx, cur, drained, clock, logging>>

SrvFail(p) ==
    /\ Running
    /\ p \in DOMAIN servers
    /\ srv[p].unit = "serving"
    /\ ~InShutdown(p)
    /\ slogFatal("failed to start server")
    /\ UNCHANGED <<pc, registry, startupIdx, startupRan, token, units, signals,
                   shutdown, clock, logging>>

\* ---------------------------------------------------------- the job units
\* runJob: ticker := time.NewTicker(interval), then the first fn(ctx) of the
\* loop, with no wait in between.
\* The invocations are counted under the clock only, where time bounds them.
Counted(c) == IF timed THEN c + 1 ELSE c

\* time.NewTicker panics on an interval that is not positive; the panic of a
\* goroutine ends the process.
JobBegin(n) ==
    /\ Running
    /\ jb[n].st = "launched"
    /\ IF jobs[n].interval <= 0
       THEN /\ exit' = "panic: non-positive interval for NewTicker"
            /\ jb' = jb
       ELSE /\ jb' = [jb EXCEPT ![n].st = "invoking", ![n].began = now,
                                ![n].inv = Counted(@)]
            /\ exit' = exit
    /\ UNCHANGED <<pc, registry, startupIdx, startupRan, token, wg, srv,
                   startLog, signals, shutdown, clock, logging>>

\* if err := fn(ctx); err != nil && ctx.Err() == nil { slog.ErrorContext(...) }
\* Faulty variant: the error is logged whatever ctx.Err() says.
M_Logged(e) == IF e # "nil" THEN 1 ELSE 0

Logged(e) == IF e # "nil" /\ token = "active" THEN 1 ELSE 0

\* Faulty variant: an error ends the goroutine of the job.
M_JobReturn(n, e) ==
    /\ Running
    /\ jb[n].st = "invoking"
    /\ e = "cancelled" => token = "cancelled"
    /\ jb' = [jb EXCEPT ![n].st = IF e = "nil" THEN "select" ELSE "done",
                        ![n].err = e, ![n].lastEnd = now,
                        ![n].logged = Logged(e)]
    /\ wg' = IF e = "nil" THEN wg ELSE wg - 1
    /\ UNCHANGED <<pc, exit, registry, startupIdx, startupRan, token, srv,
                   startLog, signals, shutdown, clock, logging>>

JobReturn(n, e) ==
    /\ Running
    /\ jb[n].st = "invoking"
    /\ e = "cancelled" => token = "cancelled"
    /\ jb' = [jb EXCEPT ![n].st = "select", ![n].err = e, ![n].lastEnd = now,
                        ![n].logged = Logged(e)]
    /\ UNCHANGED <<pc, exit, registry, startupIdx, startupRan, token, wg, srv,
                   startLog, signals, shutdown, clock, logging>>

\* select { case <-ctx.Done(): return ... }: the goroutine ends, the deferred
\* ticker.Stop() and wg.Done() run.
\* Faulty variant: the goroutine is ended whether or not ctx.Done() is ready.
M_DoneReady(n) == TRUE

DoneReady(n) == token = "cancelled"

JobExit(n) ==
    /\ Running
    /\ jb[n].st = "select"
    /\ DoneReady(n)
    /\ jb' = [jb EXCEPT ![n].st = "done", ![n].pending = FALSE, ![n].err = "nil",
                        ![n].logged = 0]
    /\ wg' = wg - 1
    /\ UNCHANGED <<pc, exit, registry, startupIdx, startupRan, token, srv, startLog,
                   signals, shutdown, clock, logging>>

\* select { ... case <-ticker.C: }: the tick is taken and the loop calls
\* fn(ctx) again.  Go's select picks any ready case, so this one may be taken
\* while ctx.Done() is ready too.
TickReady(n) == jb[n].pending

\* Faulty variant: a tick starts an invocation of its own, whether or not the
\* previous invocation has returned.
M_JobTickOverlap(n) ==
    /\ Running
    /\ jb[n].st \in {"invoking", "select"}
    /\ TickReady(n)
    /\ jb' = [jb EXCEPT ![n].st = "invoking", ![n].pending = FALSE,
                        ![n].inv = Counted(@),
                        ![n].err = "nil", ![n].logged = 0]
    /\ UNCHANGED <<pc, exit, registry, startupIdx, startupRan, token, wg, srv,
                   startLog, signals, shutdown, clock, logging>>

\* Faulty variant: the tick taken stays in the channel, as if every missed
\* tick had been queued.
M_JobTickReplay(n) ==
    /\ Running
    /\ jb[n].st = "select"
    /\ TickReady(n)
    /\ jb' = [jb EXCEPT ![n].st = "invoking",
                        ![n].inv = Counted(@),
                        ![n].err = "nil", ![n].logged = 0]
    /\ UNCHANGED <<pc, exit, registry, startupIdx, startupRan, token, wg, srv,
                   startLog, signals, shutdown, clock, logging>>

JobTick(n) ==
    /\ Running
    /\ jb[n].st = "select"
    /\ TickReady(n)
    /\ jb' = [jb EXCEPT ![n].st = "invoking", ![n].pending = FALSE,
                        ![n].inv = Counted(@),
                        ![n].err = "nil", ![n].logged = 0]
    /\ UNCHANGED <<pc, exit, registry, startupIdx, startupRan, token, wg, srv,
                   startLog, signals, shutdown, clock, logging>>

\* ------------------------------------------------------------- the clock
\* A ticker created at time b with interval T sends at b + T, b + 2T, ... into
\* a channel of capacity 1; a tick that finds the channel full is dropped.
\* Faulty variant: the ticker sends every second, whatever the interval.
M_TickerFires(n, t) ==
    /\ jb[n].st \in {"invoking", "select"}
    /\ t > jb[n].began

TickerFires(n, t) ==
    /\ jb[n].st \in {"invoking", "select"}
    /\ t > jb[n].began
    /\ (t - jb[n].began) % jobs[n].interval = 0

\* context.WithTimeout: the context expires at its deadline.
Expired(t) == shutdownCtx.st = "active" /\ t >= shutdownCtx.deadline

Ticked(u) == [u EXCEPT !.pending = TRUE]

\* One second passes, up to the given limit.
ClockTick(limit) ==
    /\ Running
    /\ timed
    /\ now < limit
    /\ now' = now + 1
    /\ jb' = [n \in JobNames |->
                IF n \in DOMAIN jobs /\ TickerFires(n, now + 1)
                THEN Ticked(jb[n])
                ELSE jb[n]]
    /\ shutdownCtx' = IF Expired(now + 1)
                      THEN [shutdownCtx EXCEPT !.st = "expired"]
                      ELSE shutdownCtx
    /\ UNCHANGED <<pc, exit, registry, startupIdx, startupRan, token, wg, srv,
                   startLog, signals, cur, drained, deferRan, timed, logging>>

AdvanceClock == ClockTick(MaxTime)

\* Without the clock: the ticker of a running job may send at any moment ...
TickerFire(n) ==
    /\ Running
    /\ ~timed
    /\ jb[n].st \in {"invoking", "select"}
    /\ ~jb[n].pending
    /\ jb' = [jb EXCEPT ![n] = Ticked(jb[n])]
    /\ UNCHANGED <<pc, exit, registry, startupIdx, startupRan, token, wg, srv,
                   startLog, signals, shutdown, clock, logging>>

\* ... and shutdownCtx may reach its deadline at any moment.
DeadlineExpire ==
    /\ Running
    /\ ~timed
    /\ shutdownCtx.st = "active"
    /\ shutdownCtx' = [shutdownCtx EXCEPT !.st = "expired"]
    /\ UNCHANGED <<pc, exit, registry, startupIdx, startupRan, token, units, signals,
                   cur, drained, deferRan, clock, logging>>

\* ------------------------------------------------------------ the shutdown
\* <-stop
ReceiveStop ==
    /\ Running /\ pc = "await"
    /\ stop > 0
    /\ stop' = stop - 1
    /\ pc' = "cancel"
    /\ UNCHANGED <<exit, registry, startupIdx, startupRan, token, units, notified,
                   shutdown, clock, logging>>

\* Faulty variant: the cancel function does not cancel.
M_CancelToken == "active"

\* backgroundCancel()
CancelToken == "cancelled"

\* slog.Info("stopping jobs"); backgroundCancel(); then
\* shutdownCtx, cancel := context.WithTimeout(context.Background(), 5*time.Second)
StopJobs ==
    /\ Running /\ pc = "cancel"
    /\ token' = CancelToken
    /\ shutdownCtx' = [st |-> "active", deadline |-> now + ShutdownTimeout]
    /\ pc' = "drain"
    /\ UNCHANGED <<exit, registry, startupIdx, startupRan, units, signals, cur,
                   drained, deferRan, clock, logging>>

\* for port, server := range b.servers (map order): server.Shutdown(shutdownCtx)
\* is called; it marks the server as shutting down and closes its listener.
Undrained == DOMAIN servers \ drained

\* Faulty variant: every server gets a timeout context of its own.
M_ShutdownBegin(p) ==
    /\ Running /\ pc = "drain"
    /\ cur = 0
    /\ p \in Undrained
    /\ cur' = p
    /\ srv' = [srv EXCEPT ![p].shutdowns = @ + 1]
    /\ shutdownCtx' = [st |-> "active", deadline |-> now + ShutdownTimeout]
    /\ UNCHANGED <<pc, exit, registry, startupIdx, startupRan, token, wg, jb,
                   startLog, signals, drained, deferRan, clock, logging>>

ShutdownBegin(p) ==
    /\ Running /\ pc = "drain"
    /\ cur = 0
    /\ p \in Undrained
    /\ cur' = p
    /\ srv' = [srv EXCEPT ![p].shutdowns = @ + 1]
    /\ UNCHANGED <<pc, exit, registry, startupIdx, startupRan, token, wg, jb,
                   startLog, signals, shutdownCtx, drained, deferRan, clock, logging>>

\* server.Shutdown returns: nil once the connections are idle, the listener's
\* close error, or ctx.Err() once shutdownCtx has expired.
ShutdownOutcomes == {"ok", "error", "timeout"}

\* Faulty variant: only a timeout is escalated to Close.
M_NeedsClose(r) == r = "timeout"

NeedsClose(r) == r # "ok"

ShutdownEnd(p, r) ==
    /\ Running /\ pc = "drain"
    /\ cur = p /\ p # 0
    /\ srv[p].result = "none"
    /\ r = "timeout" => shutdownCtx.st = "expired"
    /\ srv' = [srv EXCEPT ![p].result = r]
    /\ IF NeedsClose(r)
       THEN UNCHANGED <<cur, drained>>
       ELSE /\ cur' = 0
            /\ drained' = drained \cup {p}
    /\ UNCHANGED <<pc, exit, registry, startupIdx, startupRan, token, wg, jb,
                   startLog, signals, shutdownCtx, deferRan, clock, logging>>

\* if err := server.Close(); err != nil { slog.Warn(...) }: whatever Close
\* returns, the loop goes on with the next server.
\* Faulty variant: a failing Close is treated as fatal.
M_ForceClose(p, ok) ==
    /\ Running /\ pc = "drain"
    /\ cur = p /\ p # 0
    /\ srv[p].result \in {"error", "timeout"}
    /\ srv' = [srv EXCEPT ![p].closes = @ + 1]
    /\ IF ok
       THEN /\ cur' = 0
            /\ drained' = drained \cup {p}
            /\ exit' = exit
       ELSE /\ slogFatal("forceful shutdown failed")
            /\ UNCHANGED <<cur, drained>>
    /\ UNCHANGED <<pc, registry, startupIdx, startupRan, token, wg, jb,
                   startLog, signals, shutdownCtx, deferRan, clock, logging>>

ForceClose(p, ok) ==
    /\ Running /\ pc = "drain"
    /\ cur = p /\ p # 0
    /\ srv[p].result \in {"error", "timeout"}
    /\ srv' = [srv EXCEPT ![p].closes = @ + 1]
    /\ cur' = 0
    /\ drained' = drained \cup {p}
    /\ UNCHANGED <<pc, exit, registry, startupIdx, startupRan, token, wg, jb,
                   startLog, signals, shutdownCtx, deferRan, clock, logging>>

\* The loop over b.servers ends; slog.Info("waiting for jobs to finish").
DrainDone ==
    /\ Running /\ pc = "drain"
    /\ cur = 0
    /\ Undrained = {}
    /\ pc' = "wait"
    /\ UNCHANGED <<exit, registry, startupIdx, startupRan, token, units, signals,
                   shutdown, clock, logging>>

\* Faulty variant: Run does not wait for the units.
M_WaitOver == TRUE

\* wg.Wait()
WaitOver == wg = 0

WgWait ==
    /\ Running /\ pc = "wait"
    /\ WaitOver
    /\ pc' = "defers"
    /\ UNCHANGED <<exit, registry, startupIdx, startupRan, token, units, signals,
                   shutdown, clock, logging>>

\* for _, fn := range b.deferFns { fn() }
\* Faulty variant: the callbacks run last-registered first.
M_NextDefer == deferFns[Len(deferFns) - Len(deferRan)]

NextDefer == deferFns[Len(deferRan) + 1]

RunDefer ==
    /\ Running /\ pc = "defers"
    /\ Len(deferRan) < Len(deferFns)
    /\ deferRan' = Append(deferRan, NextDefer)
    /\ UNCHANGED <<pc, exit, registry, startupIdx, startupRan, token, units, signals,
                   shutdownCtx, cur, drained, clock, logging>>

\* slog.Info("bye!") and Run returns: the deferred cancel() and
\* backgroundCancel() run.
RunReturn ==
    /\ Running /\ pc = "defers"
    /\ Len(deferRan) >= Len(deferFns)
    /\ pc' = "done"
    /\ exit' = "returned"
    /\ token' = CancelToken
    /\ shutdownCtx' = [shutdownCtx EXCEPT !.st = "expired"]
    /\ UNCHANGED <<registry, startupIdx, startupRan, units, signals, cur, drained,
                   deferRan, clock, logging>>

\* ------------------------------------------------------- the specification
Next ==
    \/ \E a \in UserAddrs : AddServer(a)
    \/ \E n \in JobNames, i \in Intervals : AddJob(n, i)
    \/ \E n \in JobNames, i \in Intervals : AddJobAndOnStartup(n, i)
    \/ Defer
    \/ \E ok \in BOOLEAN : FnReturn(ok)
    \/ addDebugServer
    \/ StartupCall
    \/ \E ok \in BOOLEAN : StartupReturn(ok)
    \/ WithCancel
    \/ LaunchServer
    \/ \E n \in JobNames : LaunchJob(n)
    \/ Notify
    \/ Signal
    \/ \E p \in Ports, bound \in BOOLEAN : SrvStart(p, bound)
    \/ \E p \in Ports : SrvClosed(p)
    \/ \E p \in Ports : SrvFail(p)
    \/ \E n \in JobNames : JobBegin(n)
    \/ \E n \in JobNames, e \in JobErrs : JobReturn(n, e)
    \/ \E n \in JobNames : JobExit(n)
    \/ \E n \in JobNames : JobTick(n)
    \/ \E n \in JobNames : TickerFire(n)
    \/ DeadlineExpire
    \/ ReceiveStop
    \/ StopJobs
    \/ \E p \in Ports : ShutdownBegin(p)
    \/ \E p \in Ports, r \in ShutdownOutcomes : ShutdownEnd(p, r)
    \/ \E p \in Ports, ok \in BOOLEAN : ForceClose(p, ok)
    \/ DrainDone
    \/ WgWait
    \/ RunDefer
    \/ RunReturn

Spec == Init /\ [][Next]_vars

\* The scheduling the shutdown relies on: the goroutine of Run keeps running
\* (Shutdown returns at the latest when shutdownCtx expires), every launched
\* goroutine is scheduled, a serve call returns once its server is shut down,
\* a job invocation returns, and a select that keeps finding ctx.Done() ready
\* takes that case in the end (Go picks among the ready cases at random).
Coordinator ==
    \/ StopJobs
    \/ \E p \in Ports : ShutdownBegin(p)
    \/ \E p \in Ports, r \in ShutdownOutcomes : ShutdownEnd(p, r)
    \/ \E p \in Ports, ok \in BOOLEAN : ForceClose(p, ok)
    \/ DrainDone
    \/ WgWait
    \/ RunDefer
    \/ RunReturn

Fairness ==
    /\ WF_vars(Coordinator)
    /\ \A p \in Ports : WF_vars(\E bound \in BOOLEAN : SrvStart(p, bound))
    /\ \A p \in Ports : WF_vars(SrvClosed(p))
    /\ \A n \in JobNames : WF_vars(JobBegin(n))
    /\ \A n \in JobNames : WF_vars(\E e \in JobErrs : JobReturn(n, e))
    /\ \A n \in JobNames : SF_vars(JobExit(n))

\* Run from the moment the startup phase is over (backgroundCtx just created,
\* nothing launched yet), with the registry the earlier phases left.
AfterStartup(S, J, D, T) ==
    /\ pc = "launch"
    /\ exit = "running"
    /\ servers = S
    /\ jobs = J
    /\ startupJobs = <<>>
    /\ deferFns = D
    /\ startupIdx = 1
    /\ startupRan = <<>>
    /\ token = "active"
    /\ wg = 0
    /\ srv = [p \in Ports |-> NoSrv]
    /\ jb = [n \in JobNames |-> NoUnit]
    /\ startLog = <<>>
    /\ notified = FALSE
    /\ stop = 0
    /\ shutdownCtx = [st |-> "none", deadline |-> 0]
    /\ cur = 0
    /\ drained = {}
    /\ deferRan = <<>>
    /\ now = 0
    /\ timed = T
    /\ handlers = <<>>
    /\ logger = BaseLogger

RegisteredServers(A) == [p \in {Atoi(a.port) : a \in A} |->
                            CHOOSE a \in A : Atoi(a.port) = p]

RegisteredJobs(N, f) == [n \in N |-> [name |-> n, interval |-> f[n]]]

\* The shutdown under fair scheduling: a user server and the debug server,
\* one job, two deferred callbacks.
FairInit ==
    \E f \in [{"a"} -> Intervals] :
        AfterStartup(RegisteredServers({[host |-> "", port |-> "8080"], DebugAddr}),
                     RegisteredJobs({"a"}, f), <<1, 2>>, FALSE)

FairNext ==
    \/ LaunchServer
    \/ \E n \in JobNames : LaunchJob(n)
    \/ Notify
    \/ Signal
    \/ \E p \in Ports, bound \in BOOLEAN : SrvStart(p, bound)
    \/ \E p \in Ports : SrvClosed(p)
    \/ \E p \in Ports : SrvFail(p)
    \/ \E n \in JobNames : JobBegin(n)
    \/ \E n \in JobNames, e \in JobErrs : JobReturn(n, e)
    \/ \E n \in JobNames : JobExit(n)
    \/ \E n \in JobNames : JobTick(n)
    \/ \E n \in JobNames : TickerFire(n)
    \/ DeadlineExpire
    \/ ReceiveStop
    \/ StopJobs
    \/ \E p \in Ports : ShutdownBegin(p)
    \/ \E p \in Ports, r \in ShutdownOutcomes : ShutdownEnd(p, r)
    \/ \E p \in Ports, ok \in BOOLEAN : ForceClose(p, ok)
    \/ DrainDone
    \/ WgWait
    \/ RunDefer
    \/ RunReturn

FairSpec == FairInit /\ [][FairNext]_vars /\ Fairness

\* ------------------------------------------------ the timed specification
\* Run under the clock: the debug server, the jobs of TimedJobs with
\* intervals in 1..MaxPeriod, one deferred callback.
TimedJobs == {"a"}

Periods == 1..MaxPeriod

TimedInit ==
    \E f \in [TimedJobs -> Periods] :
        AfterStartup(RegisteredServers({DebugAddr}), RegisteredJobs(TimedJobs, f),
                     <<1>>, TRUE)

TimedNext ==
    \/ LaunchServer
    \/ \E n \in JobNames : LaunchJob(n)
    \/ Notify
    \/ Signal
    \/ \E p \in Ports, bound \in BOOLEAN : SrvStart(p, bound)
    \/ \E p \in Ports : SrvClosed(p)
    \/ \E p \in Ports : SrvFail(p)
    \/ \E n \in JobNames : JobBegin(n)
    \/ \E n \in JobNames, e \in JobErrs : JobReturn(n, e)
    \/ \E n \in JobNames : JobExit(n)
    \/ \E n \in JobNames : JobTick(n)
    \/ AdvanceClock
    \/ ReceiveStop
    \/ StopJobs
    \/ \E p \in Ports : ShutdownBegin(p)
    \/ \E p \in Ports, r \in ShutdownOutcomes : ShutdownEnd(p, r)
    \/ \E p \in Ports, ok \in BOOLEAN : ForceClose(p, ok)
    \/ DrainDone
    \/ WgWait
    \/ RunDefer
    \/ RunReturn

TimedSpec == TimedInit /\ [][TimedNext]_vars

\* ------------------------------------------------ the drain specification
\* Run from <-stop on, under the clock: a user server and the debug server
\* are serving, no job is registered, one deferred callback.
DrainServers == RegisteredServers({[host |-> "", port |-> "8080"], DebugAddr})

DrainInit ==
    /\ pc = "cancel"
    /\ exit = "running"
    /\ servers = DrainServers
    /\ jobs = [n \in {} |-> NoJob]
    /\ startupJobs = <<>>
    /\ deferFns = <<1>>
    /\ startupIdx = 1
    /\ startupRan = <<>>
    /\ token = "active"
    /\ wg = Cardinality(DOMAIN DrainServers)
    /\ srv = [p \in Ports |-> IF p \in DOMAIN DrainServers
                              THEN [NoSrv EXCEPT !.unit = "serving"]
                              ELSE NoSrv]
    /\ jb = [n \in JobNames |-> NoUnit]
    /\ startLog \in {<<6060, 8080>>, <<8080, 6060>>}
    /\ notified = TRUE
    /\ stop = 0
    /\ shutdownCtx = [st |-> "none", deadline |-> 0]
    /\ cur = 0
    /\ drained = {}
    /\ deferRan = <<>>
    /\ now = 0
    /\ timed = TRUE
    /\ handlers = <<>>
    /\ logger = BaseLogger

\* server.Shutdown returns ctx.Err() as soon as shutdownCtx is done (and at
\* once when it is called with the context already done and a connection
\* still active); server.Close and the statements of the loop do not wait.
\* So no time passes in the loop once shutdownCtx has expired.
DrainClock ==
    /\ ~(pc = "drain" /\ shutdownCtx.st = "expired")
    /\ ClockTick(MaxDrainTime)

DrainNext ==
    \/ Signal
    \/ \E p \in Ports : SrvClosed(p)
    \/ \E p \in Ports : SrvFail(p)
    \/ DrainClock
    \/ StopJobs
    \/ \E p \in Ports : ShutdownBegin(p)
    \/ \E p \in Ports, r \in ShutdownOutcomes : ShutdownEnd(p, r)
    \/ \E p \in Ports, ok \in BOOLEAN : ForceClose(p, ok)
    \/ DrainDone
    \/ WgWait
    \/ RunDefer
    \/ RunReturn

DrainSpec == DrainInit /\ [][DrainNext]_vars

\* ------------------------------------------------------------ the logger
\* The handler wrappers a service may pass.
Wrappers == {"w1", "w2", "w3"}

run == <<pc, exit, registry, startupIdx, startupRan, token, units, signals,
         shutdown, clock>>

\* WithLogHandlerWrapper(wrapper), applied:
\* so.logHandlerWrappers = append(so.logHandlerWrappers, wrapper)
WithLogHandlerWrapper(wrapper) ==
    /\ logger.st = "options"
    /\ Len(handlers) < MaxWrappers
    /\ handlers' = Append(handlers, wrapper)
    /\ UNCHANGED <<logger, run>>

\* newLogger(level, attrReplacer, handlers): h = slog.NewJSONHandler(...)
newLoggerCall ==
    /\ logger.st = "options"
    /\ logger' = [st |-> "loop", i |-> 0, h |-> <<"json">>]
    /\ UNCHANGED <<handlers, run>>

\* handlers[g] in Go, with its bounds check; the sequence is indexed from 1.
InRange(g) == 0 <= g /\ g < Len(handlers)

\* for i := range handlers { h = handlers[len(handlers)-i](h) }: one
\* iteration.  The handler h is written outermost wrapper first.
newLoggerLoop ==
    /\ logger.st = "loop"
    /\ logger.i < Len(handlers)
    /\ LET g == Len(handlers) - logger.i
       IN IF InRange(g)
          THEN /\ logger' = [logger EXCEPT !.h = <<handlers[g + 1]>> \o @,
                                           !.i = @ + 1]
               /\ exit' = exit
          ELSE /\ logger' = [logger EXCEPT !.st = "panic"]
               /\ exit' = "panic: index out of range"
    /\ UNCHANGED <<handlers, pc, registry, startupIdx, startupRan, token, units,
                   signals, shutdown, clock>>

\* return slog.New(h)
newLoggerReturn ==
    /\ logger.st = "loop"
    /\ logger.i = Len(handlers)
    /\ logger' = [logger EXCEPT !.st = "done"]
    /\ UNCHANGED <<handlers, run>>

\* The process from the application of its options to the return of
\* newLogger, before Run does anything else.
LoggerInit ==
    /\ pc = "config"
    /\ exit = "running"
    /\ servers = [p \in {} |-> NoAddr]
    /\ jobs = [n \in {} |-> NoJob]
    /\ startupJobs = <<>>
    /\ deferFns = <<>>
    /\ startupIdx = 1
    /\ startupRan = <<>>
    /\ token = "none"
    /\ wg = 0
    /\ srv = [p \in Ports |-> NoSrv]
    /\ jb = [n \in JobNames |-> NoUnit]
    /\ startLog = <<>>
    /\ notified = FALSE
    /\ stop = 0
    /\ shutdownCtx = [st |-> "none", deadline |-> 0]
    /\ cur = 0
    /\ drained = {}
    /\ deferRan = <<>>
    /\ now = 0
    /\ timed = FALSE
    /\ handlers = <<>>
    /\ logger = [st |-> "options", i |-> 0, h |-> <<>>]

LoggerNext ==
    \/ \E w \in Wrappers : WithLogHandlerWrapper(w)
    \/ newLoggerCall
    \/ newLoggerLoop
    \/ newLoggerReturn

LoggerSpec == LoggerInit /\ [][LoggerNext]_vars

\* --------------------------------------- the configuration specification
\* Run from its beginning to the launch of the goroutines, with every address
\* and every interval the configuration function may pass.
ConfigNext ==
    \/ \E a \in AnyAddrs : AddServer(a)
    \/ \E n \in JobNames, i \in AnyIntervals : AddJob(n, i)
    \/ \E n \in JobNames, i \in AnyIntervals : AddJobAndOnStartup(n, i)
    \/ \E ok \in BOOLEAN : FnReturn(ok)
    \/ addDebugServer
    \/ StartupCall
    \/ \E ok \in BOOLEAN : StartupReturn(ok)
    \/ WithCancel
    \/ LaunchServer
    \/ \E n \in JobNames : LaunchJob(n)
    \/ Notify
    \/ \E p \in Ports, bound \in BOOLEAN : SrvStart(p, bound)
    \/ \E n \in JobNames : JobBegin(n)

ConfigSpec == Init /\ [][ConfigNext]_vars

\* ------------------------------------------------------------ the claims
ServerUnits == {p \in Ports : srv[p].unit # "none"}

JobUnits == {n \in JobNames : jb[n].st # "none"}

LiveServerUnits == {p \in Ports : srv[p].unit \in {"launched", "serving"}}

LiveJobUnits == {n \in JobNames : jb[n].st \in {"launched", "invoking", "select"}}

NoUnitYet == ServerUnits = {} /\ JobUnits = {} /\ wg = 0

AllUnitsDone ==
    /\ \A p \in DOMAIN servers : srv[p].unit = "done"
    /\ \A n \in DOMAIN jobs : jb[n].st = "done"

\* C1: the startup jobs are invoked one at a time in registration order, each
\* returning (successfully) before the next is invoked, and no server or job
\* goroutine exists before the last of them has returned successfully.
C1_StartupOrder ==
    /\ Len(startupRan) <= Len(startupJobs)
    /\ \A i \in 1..Len(startupRan) :
          /\ startupRan[i].name = startupJobs[i].name
          /\ i < Len(startupRan) => startupRan[i].res = "ok"
    /\ Len(startupRan) = IF pc = "startupCall" THEN startupIdx ELSE startupIdx - 1
    /\ ~NoUnitYet =>
          /\ Len(startupRan) = Len(startupJobs)
          /\ \A i \in 1..Len(startupRan) : startupRan[i].res = "ok"

C1_Witness ==
    /\ Len(startupRan) = 2
    /\ startupRan[1].name # startupRan[2].name
    /\ \E n \in JobNames : jb[n].st = "invoking"
    /\ \E p \in Ports : srv[p].unit = "serving"

\* C2: a startup job that returns an error ends the process at once with a
\* fatal exit: no later startup job is invoked, backgroundCtx is never created
\* and no goroutine is ever launched.
StartupFailed == \E i \in 1..Len(startupRan) : startupRan[i].res = "err"

C2_StartupFailure ==
    StartupFailed =>
        /\ exit = "failed to run startup job"
        /\ startupRan[Len(startupRan)].res = "err"
        /\ token = "none"
        /\ NoUnitYet

C2_Witness ==
    /\ Len(startupJobs) = 2
    /\ Len(startupRan) = 1
    /\ StartupFailed
    /\ Fatal

\* C3: every launched goroutine is counted in the WaitGroup from its launch to
\* its end, exactly once, and no deferred callback starts while a launched
\* goroutine is unfinished.
C3_WaitBeforeCleanup ==
    /\ wg = Cardinality(LiveServerUnits) + Cardinality(LiveJobUnits)
    /\ ServerUnits \subseteq DOMAIN servers
    /\ JobUnits \subseteq DOMAIN jobs
    /\ (pc \in {"defers", "done"} \/ deferRan # <<>>) => AllUnitsDone /\ wg = 0

C3_Witness ==
    /\ pc = "defers"
    /\ Len(deferRan) = 1
    /\ Cardinality(DOMAIN servers) = 2
    /\ DOMAIN jobs # {}

\* C4: the deferred callbacks run in registration order, each once, and only
\* after every server and job goroutine has ended; when Run returns all of
\* them have run.
C4_DeferFifo ==
    /\ Len(deferRan) <= Len(deferFns)
    /\ \A i \in 1..Len(deferRan) : deferRan[i] = i
    /\ \A i \in 1..Len(deferFns) : deferFns[i] = i
    /\ deferRan # <<>> => pc \in {"defers", "done"} /\ AllUnitsDone
    /\ pc = "done" => deferRan = deferFns

C4_Witness ==
    /\ pc = "done"
    /\ deferRan = <<1, 2>>
    /\ startupRan # <<>>

\* C5: backgroundCtx goes from active to cancelled and never back (the
\* deferred second cancel changes nothing), and it is cancelled before the
\* Shutdown of any server is attempted.
C5_TokenOnce ==
    /\ [][/\ token = "cancelled" => token' = "cancelled"
          /\ token = "active" => token' \in {"active", "cancelled"}]_vars
    /\ [](\A p \in Ports : srv[p].shutdowns > 0 => token = "cancelled")

C5_Witness ==
    /\ exit = "returned"
    /\ token = "cancelled"
    /\ \E p \in Ports : srv[p].shutdowns > 0

\* C6: Shutdown is attempted exactly once on every registered server, the
\* debug server included, whatever happened to the servers before it; a
\* server whose Shutdown failed (error, or deadline passed) gets exactly one
\* Close, a server whose Shutdown succeeded gets none.
C6_ShutdownEveryServer ==
    /\ \A p \in Ports :
          /\ srv[p].shutdowns <= 1
          /\ srv[p].closes = (IF p \in drained /\ srv[p].result \in {"error", "timeout"}
                              THEN 1 ELSE 0)
          /\ srv[p].result = "timeout" => shutdownCtx.st = "expired"
          /\ p \in drained => srv[p].shutdowns = 1 /\ srv[p].result # "none"
    /\ pc \in {"wait", "defers", "done"} => drained = DOMAIN servers

C6_Witness ==
    /\ pc = "wait"
    /\ \E p, q \in DOMAIN servers :
          /\ srv[p].result = "timeout" /\ srv[p].closes = 1
          /\ srv[q].result = "ok" /\ srv[q].closes = 0
          /\ srv[q].shutdowns = 1

\* C7 as claimed: once the termination signal has been received, Run
\* returns normally in the end, whatever Shutdown and Close report.
C7_AlwaysReturns == (pc = "cancel") ~> (pc = "done")

\* C7 as amended: once the termination signal has been received, and whatever
\* Shutdown and Close report, Run returns normally in the end with no step
\* skipped (every server shut down, every goroutine ended, every deferred
\* callback run), unless a serve call ends the process with the fatal
\* "failed to start server" in the meantime.
C7_ShutdownCompletes ==
    /\ (pc = "cancel") ~> (pc = "done" \/ exit = "failed to start server")
    /\ [](pc = "done" =>
            /\ exit = "returned"
            /\ \A p \in DOMAIN servers : srv[p].shutdowns = 1
            /\ AllUnitsDone
            /\ deferRan = deferFns)

C7_Witness ==
    /\ pc = "done"
    /\ \E p, q \in DOMAIN servers :
          /\ srv[p].result = "error" /\ srv[p].closes = 1
          /\ srv[q].result = "timeout" /\ srv[q].closes = 1
    /\ deferRan = <<1, 2>>

\* C8 as claimed: the first invocation starts at the launch of the job's
\* goroutine, and every later invocation starts no earlier than the interval
\* after the previous invocation returned.
C8_IntervalAfterCompletion ==
    [][\A n \in DOMAIN jobs :
          (jb[n].st = "select" /\ jb'[n].st = "invoking") =>
              now >= jb[n].lastEnd + jobs[n].interval]_vars

\* C8 as amended: the first invocation starts at the launch of the job's
\* goroutine, with the creation of the ticker; the k-th later invocation
\* starts no earlier than k intervals after that launch (the ticks are sent
\* at fixed rate from the launch, not from the return of the previous
\* invocation).
C8_TickerSchedule ==
    \A n \in DOMAIN jobs :
        /\ jb[n].st \in {"invoking", "select", "done"} => jb[n].inv >= 1
        /\ jb[n].st \in {"none", "launched"} => jb[n].inv = 0
        /\ jb[n].inv >= 1 =>
              now >= jb[n].began + (jb[n].inv - 1) * jobs[n].interval

C8_Witness ==
    \E n \in DOMAIN jobs :
        /\ jobs[n].interval = 2
        /\ jb[n].st = "invoking"
        /\ jb[n].inv = 2
        /\ now = jb[n].lastEnd
        /\ now > jb[n].began + 2

\* C9: a goroutine that waits in the select after an invocation while the
\* token is cancelled does not invoke the job function again, also when the
\* ticker has sent as well.
C9_CancelWinsTies ==
    [][\A n \in JobNames :
          (jb[n].st = "select" /\ token = "cancelled") => jb'[n].st # "invoking"]_vars

C11_LoggedUnlessCancelCaused ==
    [][\A n \in JobNames :
          (jb[n].st = "invoking" /\ jb'[n].st = "select" /\ jb'[n].err # "nil") =>
              (jb'[n].logged = 1 <=> jb'[n].err # "cancelled")]_vars

\* C12: a server goroutine ends (its wg.Done() runs, the process goes on, no
\* error is logged) only when ListenAndServe found the server shut down or
\* closed; the fatal "failed to start server" comes only from a serve call of
\* a server that is neither, it ends the process in whatever state the other
\* goroutines are, and nothing runs after it.
C12_ServerClosedOrFatal ==
    /\ [][\A p \in Ports :
            (srv[p].unit \in {"launched", "serving"} /\ srv'[p].unit = "done") =>
                /\ InShutdown(p)
                /\ wg' = wg - 1
                /\ exit' = exit]_vars
    /\ [][(exit = "running" /\ exit' = "failed to start server") =>
                /\ \E p \in DOMAIN servers :
                      /\ srv[p].unit \in {"launched", "serving"}
                      /\ ~InShutdown(p)
                /\ wg' = wg /\ srv' = srv /\ jb' = jb]_vars
    /\ [][exit = "failed to start server" => UNCHANGED <<pc, exit, wg, srv, jb, deferRan>>]_vars

C12_Witness ==
    /\ exit = "failed to start server"
    /\ \E p, q \in DOMAIN servers :
          /\ srv[p].unit = "done"
          /\ srv[q].unit = "serving"
    /\ \E n \in DOMAIN jobs : jb[n].st = "invoking"

\* C13 as claimed: the runtime never ends the process while a job invocation
\* is in progress, also when a goroutine hits a fatal error.
C13_NoInvocationCutOff ==
    (exit = "returned" \/ Fatal) => \A n \in JobNames : jb[n].st # "invoking"

\* C13 as amended: a job goroutine ends only from its select, with
\* backgroundCtx cancelled, and when Run returns every goroutine has ended
\* that way; the process ends with a job invocation in progress only by a
\* fatal serve error or by a signal that arrives before signal.Notify.
C13_CooperativeUnlessFatal ==
    /\ [][\A n \in JobNames :
            (jb[n].st # "done" /\ jb'[n].st = "done") =>
                jb[n].st = "select" /\ token = "cancelled"]_vars
    /\ [](exit = "returned" => AllUnitsDone)
    /\ []((exit # "running" /\ \E n \in JobNames : jb[n].st = "invoking") =>
              exit \in {"failed to start server", "killed"})

C13_Witness ==
    /\ exit = "failed to start server"
    /\ notified
    /\ \E n \in DOMAIN jobs : jb[n].st = "invoking"
    /\ \E n \in DOMAIN jobs : jb[n].st = "select"

\* C14: an AddServer call (the one of addDebugServer included) whose address
\* parses to a port already in b.servers, under whatever host, is fatal at
\* that call and leaves the registry as it is: a registered server is never
\* replaced, every server sits under the port its address parses to, and the
\* fatal exit comes before any startup job or goroutine.
C14_DuplicatePortFatal ==
    /\ [][\A p \in DOMAIN servers :
            p \in DOMAIN servers' /\ servers'[p] = servers[p]]_vars
    /\ [][(exit = "running" /\ exit' = "server already added") =>
            /\ pc \in {"config", "debug"}
            /\ servers' = servers]_vars
    /\ [](\A p \in DOMAIN servers : Atoi(servers[p].port) = p)
    /\ [](exit = "server already added" =>
            /\ NoUnitYet
            /\ startupRan = <<>>
            /\ token = "none")
    /\ [](\A a \in AnyAddrs :
            (/\ Running /\ pc = "config" /\ Registered < MaxRegs
             /\ ~SplitErr(a) /\ ~AtoiErr(a.port)
             /\ Atoi(a.port) \in DOMAIN servers) =>
                ~ENABLED (AddServer(a) /\ exit' = exit))

C14_Witness ==
    /\ exit = "server already added"
    /\ pc = "config"
    /\ 8080 \in DOMAIN servers
    /\ servers[8080].host = "127.0.0.1"

\* C15: an AddJob or AddJobAndOnStartup call with a name that is already in
\* b.jobs is fatal at that call and changes neither b.jobs nor b.startupJobs:
\* a registered job is never replaced, every job sits under its own name, and
\* b.startupJobs holds jobs of b.jobs, each name at most once.
C15_DuplicateJobFatal ==
    /\ [][\A n \in DOMAIN jobs : n \in DOMAIN jobs' /\ jobs'[n] = jobs[n]]_vars
    /\ [][(exit = "running" /\ exit' = "job already added") =>
            /\ pc = "config"
            /\ jobs' = jobs
            /\ startupJobs' = startupJobs]_vars
    /\ [](\A n \in DOMAIN jobs : jobs[n].name = n)
    /\ [](\A i \in 1..Len(startupJobs) :
            /\ startupJobs[i].name \in DOMAIN jobs
            /\ jobs[startupJobs[i].name] = startupJobs[i]
            /\ \A k \in 1..Len(startupJobs) :
                  startupJobs[k].name = startupJobs[i].name => k = i)
    /\ [](\A n \in DOMAIN jobs, i \in AnyIntervals :
            (Running /\ pc = "config" /\ Registered < MaxRegs) =>
                /\ ~ENABLED (AddJob(n, i) /\ exit' = exit)
                /\ ~ENABLED (AddJobAndOnStartup(n, i) /\ exit' = exit))

C15_Witness ==
    /\ exit = "job already added"
    /\ Len(startupJobs) = 1
    /\ \E n \in DOMAIN jobs : startupJobs[1].name = n /\ jobs[n].interval = 1

\* C16: a job whose interval is not positive is rejected at registration: it
\* is in b.jobs at most in a process that has ended fatally, with no startup
\* job started and no goroutine launched.
C16_IntervalChecked ==
    \A n \in DOMAIN jobs :
        jobs[n].interval <= 0 => Fatal /\ NoUnitYet /\ startupRan = <<>>

\* C17: the "starting server" log entries appear in ascending port order, in
\* every execution.
C17_StartLogAscending ==
    \A i, j \in 1..Len(startLog) : i < j => startLog[i] < startLog[j]

\* C18: the shutdown sequence is entered once, from <-stop, and never left
\* backwards; a signal that arrives after signal.Notify only fills the stop
\* channel: it moves no step of Run, ends no goroutine, touches neither
\* context and does not end the process, and nothing reads the channel again.
Triggered == pc \in {"cancel", "drain", "wait", "defers", "done"}

C18_SingleShot ==
    /\ [][(~Triggered /\ Triggered') => (pc = "await" /\ pc' = "cancel" /\ stop' = stop - 1)]_vars
    /\ [][Triggered => Triggered']_vars
    /\ [][(Triggered /\ pc # "cancel") => pc' # "cancel"]_vars
    /\ [][Triggered => stop' >= stop]_vars
    /\ [][stop' > stop =>
            UNCHANGED <<pc, exit, registry, token, wg, srv, jb, shutdownCtx, cur,
                        drained, deferRan>>]_vars
    /\ [](notified => exit # "killed")

C18_Witness ==
    /\ exit = "returned"
    /\ pc = "done"
    /\ stop = 1

\* C19: a job registered with AddJobAndOnStartup is both in b.startupJobs and
\* in b.jobs; its function is invoked once in the startup loop, before any
\* goroutine exists, and the job then gets its goroutine like every job of
\* b.jobs, whose first step is the next invocation, with no tick awaited.
StartupNames == {startupJobs[i].name : i \in 1..Len(startupJobs)}

C19_StartupThenPeriodic ==
    /\ [](StartupNames \subseteq DOMAIN jobs)
    /\ [](\A i, k \in 1..Len(startupRan) :
            startupRan[i].name = startupRan[k].name => i = k)
    /\ [][startupRan' # startupRan => (pc \in {"startup", "startupCall"} /\ NoUnitYet)]_vars
    /\ [](\A n \in StartupNames :
            jb[n].st # "none" =>
                \E i \in 1..Len(startupRan) :
                    startupRan[i].name = n /\ startupRan[i].res = "ok")
    /\ []((pc = "await" \/ Triggered) => \A n \in DOMAIN jobs : jb[n].st # "none")
    /\ [][\A n \in JobNames :
            (jb[n].st = "launched" /\ jb'[n].st # "launched") =>
                (jb'[n].st = "invoking" /\ ~jb[n].pending)]_vars

C19_Witness ==
    \E n \in DOMAIN jobs :
        /\ startupRan = <<[name |-> n, res |-> "ok"]>>
        /\ jb[n].st = "invoking"
        /\ ~jb[n].pending
        /\ token = "active"

\* C20: newLogger never indexes outside the list of wrappers, and the logger
\* it returns has every wrapper of the list around the JSON handler, the
\* first wrapper outermost.
C20_WrapsInReverse ==
    /\ logger.st # "panic"
    /\ logger.st = "done" => logger.h = handlers \o <<"json">>

\* C21: shutdownCtx is created once, with its deadline 5 s after the
\* creation, and that one deadline holds for the Shutdown of every server:
\* it never moves, the loop over the servers is over when it has passed, a
\* Shutdown reports the timeout only once it has passed, and a server whose
\* Shutdown failed in any way is closed before the loop goes on.
C21_SharedDeadline ==
    /\ [][(shutdownCtx.st = "none" /\ shutdownCtx'.st # "none") =>
            (pc = "cancel" /\ shutdownCtx'.deadline = now + ShutdownTimeout)]_vars
    /\ [][shutdownCtx.st # "none" =>
            (shutdownCtx'.st # "none" /\ shutdownCtx'.deadline = shutdownCtx.deadline)]_vars
    /\ [](shutdownCtx.st = "expired" /\ pc # "done" => now >= shutdownCtx.deadline)
    /\ [](pc = "drain" => now <= shutdownCtx.deadline)
    /\ [](\A p \in Ports : srv[p].result = "timeout" => now >= shutdownCtx.deadline)
    /\ [](\A p \in Ports :
            (p \in drained /\ srv[p].result \in {"error", "timeout"}) => srv[p].closes = 1)

C21_Witness ==
    /\ pc = "wait"
    /\ now = ShutdownTimeout
    /\ \A p \in DOMAIN servers : srv[p].result = "timeout" /\ srv[p].closes = 1
    /\ Cardinality(DOMAIN servers) = 2

\* C22: a job has one goroutine, launched once, and that goroutine starts an
\* invocation only when it is not inside one: from its launch or from its
\* select, never while the previous invocation has not returned, however many
\* ticks the invocation outlasts.
C22_OneInvocationAtATime ==
    [][\A n \in JobNames :
          /\ jb'[n].inv > jb[n].inv =>
                /\ jb[n].st \in {"launched", "select"}
                /\ jb'[n].st = "invoking"
                /\ jb'[n].inv = jb[n].inv + 1
          /\ jb[n].st = "invoking" => jb'[n].st \in {"invoking", "select"}
          /\ (jb[n].st = "invoking" /\ jb'[n].st = "invoking") =>
                jb'[n].inv = jb[n].inv
          /\ (jb[n].st # "launched" /\ jb'[n].st = "launched") =>
                (jb[n].st = "none" /\ wg' = wg + 1)]_vars

C22_Witness ==
    \E n \in DOMAIN jobs :
        /\ jobs[n].interval = 1
        /\ jb[n].st = "invoking"
        /\ jb[n].inv = 1
        /\ jb[n].pending
        /\ now >= jb[n].began + 3

\* C23: ticker.C holds one tick at most and taking it empties the channel, so
\* the ticks an invocation outlasts start one invocation, not one each: by
\* time t after the launch at most 1 + t \div T invocations have started.
C23_TicksCoalesced ==
    /\ [](\A n \in DOMAIN jobs :
            jb[n].inv >= 1 =>
                jb[n].inv <= 1 + ((now - jb[n].began) \div jobs[n].interval))
    /\ [][\A n \in JobNames :
            (jb[n].st = "select" /\ jb'[n].st = "invoking") =>
                (jb[n].pending /\ ~jb'[n].pending)]_vars
    /\ [][\A n \in JobNames :
            (jb[n].st = "select" /\ ~jb[n].pending /\ now' = now) =>
                jb'[n].st # "invoking"]_vars

C23_Witness ==
    \E n \in DOMAIN jobs :
        /\ jobs[n].interval = 1
        /\ jb[n].st = "invoking"
        /\ jb[n].inv = 2
        /\ ~jb[n].pending
        /\ jb[n].lastEnd = now
        /\ now = jb[n].began + 3
        /\ token = "active"

\* C24: a job goroutine has ended only if backgroundCtx is cancelled; while
\* it is active every launched job goroutine is about to invoke, inside an
\* invocation or in its select.
C24_JobEndsAfterCancel ==
    /\ \A n \in JobNames : jb[n].st = "done" => token = "cancelled"
    /\ token = "active" =>
          /\ \A n \in JobUnits : jb[n].st \in {"launched", "invoking", "select"}
          /\ wg >= Cardinality(JobUnits)

C24_Witness ==
    /\ pc = "wait"
    /\ \E n, m \in DOMAIN jobs :
          /\ jb[n].st = "done"
          /\ jb[m].st = "invoking"
          /\ jb[m].pending

\* C25: a process that ended in any other way than by the return of Run has
\* run no deferred callback; no callback runs twice, and callbacks run only
\* in the loop after wg.Wait() of the shutdown that <-stop started.
C25_NoDefersOnFatal ==
    /\ exit \notin {"running", "returned"} => deferRan = <<>>
    /\ \A i, k \in 1..Len(deferRan) : deferRan[i] = deferRan[k] => i = k
    /\ Range(deferRan) \subseteq Range(deferFns)
    /\ deferRan # <<>> =>
          /\ Triggered
          /\ token = "cancelled"
          /\ drained = DOMAIN servers
          /\ wg = 0

C25_Witness ==
    /\ exit = "failed to start server"
    /\ pc = "drain"
    /\ Len(deferFns) = 2
    /\ deferRan = <<>>
    /\ drained # {}

\* C26: the debug server is registered by Run itself, between the return of
\* the configuration function and the first startup job, through AddServer:
\* with its port already taken Run gets no further than that call, otherwise
\* the debug server is in b.servers from then on, has its goroutine when Run
\* waits for the signal, is shut down in the loop and has ended when Run
\* returns.
DebugPort == Atoi(DebugAddr.port)

C26_DebugServer ==
    /\ [](pc \notin {"config", "debug"} =>
            (DebugPort \in DOMAIN servers /\ servers[DebugPort] = DebugAddr))
    /\ [](pc \in {"config", "debug"} => (startupRan = <<>> /\ NoUnitYet))
    /\ [][(pc = "debug" /\ DebugPort \in DOMAIN servers) =>
            /\ pc' = "debug"
            /\ exit' \in {exit, "server already added", "killed"}
            /\ servers' = servers]_vars
    /\ [][(pc = "debug" /\ pc' # "debug") =>
            /\ pc' = "startup"
            /\ DOMAIN servers' = DOMAIN servers \cup {DebugPort}
            /\ exit' = exit]_vars
    /\ []((pc = "await" \/ Triggered) => srv[DebugPort].unit # "none")
    /\ [](pc \in {"wait", "defers", "done"} => srv[DebugPort].shutdowns = 1)
    /\ [](exit = "returned" => srv[DebugPort].unit = "done")

C26_Witness ==
    /\ exit = "returned"
    /\ Cardinality(DOMAIN servers) = 2
    /\ srv[DebugPort].unit = "done"
    /\ srv[DebugPort].shutdowns = 1
    /\ srv[DebugPort].result = "error"
    /\ startupRan # <<>>

\* C27: when Shutdown reaches a server before its goroutine has called
\* ListenAndServe, the goroutine ends with "server closed" and nothing fatal;
\* a job goroutine that begins only after backgroundCtx was cancelled invokes
\* the job function once and no more.
C27_StartupRaceClean ==
    /\ \A p \in Ports : srv[p].unit = "done" => (InShutdown(p) /\ p \in Range(startLog))
    /\ \A n \in DOMAIN jobs :
          (/\ token = "cancelled"
           /\ shutdownCtx.st # "none"
           /\ jb[n].st \in {"invoking", "select", "done"}
           /\ jb[n].began > shutdownCtx.deadline - ShutdownTimeout) =>
              jb[n].inv <= 1

====
